---- MODULE Spec2Model ----
(***************************************************************************)
(* Model of the pull-request reviewer service (Fowaliori/AvitoTechTest).   *)
(*                                                                         *)
(* The model follows the newest revision of the two layers that build      *)
(* together: the service of src/unnamed/part_004 on top of the storage of  *)
(* src/unnamed/part_001 and the schema of src/unnamed/part_002.            *)
(* src/internal/service/service.go and src/internal/db/storage.go are      *)
(* earlier revisions of the same files; where a function has the same      *)
(* behaviour in both, the comment names both places.                       *)
(*                                                                         *)
(* The store is PostgreSQL.  The three tables are the state.  A handler is *)
(* one action: it runs from its first store call to its return, and the    *)
(* store executes every statement without an infrastructure failure.       *)
(* SpecAtomic alone splits CreateTeam into the steps of its transaction.   *)
(***************************************************************************)
EXTENDS Integers, Sequences, FiniteSets, TLC

\* ---------------------------------------------------------------- bounds

\* Longest member list a client sends to CreateTeam.
MaxMembers == 3

\* time.Now() is read at most MaxClock times in a run.
MaxClock == 3

\* ------------------------------------------------------- request universe

UserIds == {"u1", "u2", "u3"}

Usernames == {"Alice"}

TeamNames == {"t1"}

PrIds == {"p1"}

PrNames == {"x", "y"}

\* models.PullRequestStatusOPEN / models.PullRequestStatusMERGED
OPEN == "OPEN"

MERGED == "MERGED"

\* models.TeamMember values a request body can carry
TeamMember == [UserId : UserIds, Username : Usernames, IsActive : BOOLEAN]

SeqsUpTo(S, n) == UNION {[1..k -> S] : k \in 0..n}

\* the member lists a request body can carry
MemberLists == SeqsUpTo(TeamMember, MaxMembers)

\* ------------------------------------------------------------------ state

VARIABLES
    teams,          \* table teams: the set of team_name keys
    users,          \* table users: its rows in heap (scan) order
    pull_requests,  \* table pull_requests: pull_request_id -> row
    clock,          \* the value the next time.Now() returns
    calls,          \* the handler calls in flight, by connection: a
                    \* CreateTeam whose transaction is open is [team, done],
                    \* done statements executed; a call between its read and
                    \* its write of a pull request is [op, pr], pr the
                    \* pull request it is going to save
    last            \* the handler call that completed last: [op, err, saved],
                    \* saved: the call wrote to the store

vars == <<teams, users, pull_requests, clock, calls, last>>

\* ---------------------------------------------------------------- errors

ErrTeamExists == "ErrTeamExists"

ErrTeamNotFound == "ErrTeamNotFound"

ErrUserNotFound == "ErrUserNotFound"

ErrPRExists == "ErrPRExists"

ErrPRNotFound == "ErrPRNotFound"

ErrPRMerged == "ErrPRMerged"

ErrReviewerNotAssigned == "ErrReviewerNotAssigned"

ErrNoCandidate == "ErrNoCandidate"

\* a wrapped store error (fmt.Errorf), not a ServiceError
StoreError == "StoreError"

\* the nil error
Nil == "nil"

\* a nil *time.Time / SQL NULL is the empty sequence, a set one is <<t>>
NoTime == <<>>

\* ----------------------------------------------------------- storage: users

\* The position of the row of user id in the users heap, 0 when there is none.
RowOf(heap, id) ==
    IF \E i \in 1..Len(heap) : heap[i].user_id = id
    THEN CHOOSE i \in 1..Len(heap) : heap[i].user_id = id
    ELSE 0

\* INSERT INTO users on a table without the key on user_id: the row is added
\* and the stored one stays
InsertUser(heap, row) == Append(heap, row)

\* INSERT INTO users ... ON CONFLICT (user_id) DO UPDATE SET username,
\* team_name, is_active.  PostgreSQL never overwrites a row: an update
\* writes a new row version behind the rows of the table and the old
\* version is dead, so the row leaves its place in the scan order.
UpsertUser(heap, row) ==
    Append(SelectSeq(heap, LAMBDA r : r.user_id # row.user_id), row)

\* Storage.GetUser: SELECT ... FROM users WHERE user_id=$1
UserExists(id) == RowOf(users, id) # 0

GetUser(id) ==
    LET r == users[RowOf(users, id)]
    IN  [UserId |-> r.user_id, Username |-> r.username,
         TeamName |-> r.team_name, IsActive |-> r.is_active]

\* Storage.SaveUser: the users heap after the upsert of user
SaveUser(user) ==
    UpsertUser(users, [user_id |-> user.UserId, username |-> user.Username,
                       team_name |-> user.TeamName, is_active |-> user.IsActive])

\* ----------------------------------------------------------- storage: teams

\* Storage.TeamExists: SELECT EXISTS(SELECT 1 FROM teams WHERE team_name=$1)
TeamExists(name) == name \in teams

\* Storage.GetTeam: SELECT user_id, username, is_active FROM users WHERE
\* team_name=$1, no ORDER BY: the rows come in heap order.
GetTeamIn(heap, name) ==
    LET rows == SelectSeq(heap, LAMBDA r : r.team_name = name)
    IN  [TeamName |-> name,
         Members  |-> [i \in 1..Len(rows) |->
                          [UserId |-> rows[i].user_id,
                           Username |-> rows[i].username,
                           IsActive |-> rows[i].is_active]]]

\* Storage.GetTeam on the users table of the current state
GetTeam(name) == GetTeamIn(users, name)

\* the member upserts of SaveTeam, in the order of team.Members
RECURSIVE UpsertMembers(_, _, _)
UpsertMembers(heap, team, i) ==
    IF i > Len(team.Members) THEN heap
    ELSE UpsertMembers(
            UpsertUser(heap, [user_id   |-> team.Members[i].UserId,
                              username  |-> team.Members[i].Username,
                              team_name |-> team.TeamName,
                              is_active |-> team.Members[i].IsActive]),
            team, i + 1)

\* Storage.SaveTeam, one transaction: INSERT INTO teams ... ON CONFLICT DO
\* NOTHING; DELETE FROM users WHERE team_name=$1; one upsert per member.
\* pull_requests.author_id REFERENCES users(user_id): the DELETE of a user
\* who authored a pull request fails, and the transaction is rolled back.
SaveTeam(team) ==
    LET kept   == SelectSeq(users, LAMBDA r : r.team_name # team.TeamName)
        gone   == {users[i].user_id : i \in {j \in 1..Len(users) :
                                       users[j].team_name = team.TeamName}}
        authors == {pull_requests[p].author_id : p \in DOMAIN pull_requests}
    IN  IF gone \cap authors # {}
        THEN [err |-> StoreError, teams |-> teams, users |-> users]
        ELSE [err   |-> Nil,
              teams |-> teams \cup {team.TeamName},
              users |-> UpsertMembers(kept, team, 1)]

\* The statements of the SaveTeam transaction, in the order SaveTeam
\* executes them: the INSERT of the team, the DELETE of its users, one upsert
\* per member.
SaveTeamStatements(team) ==
    <<[kind |-> "insert_team", name |-> team.TeamName],
      [kind |-> "delete_users", name |-> team.TeamName]>>
    \o [i \in 1..Len(team.Members) |->
           [kind |-> "upsert",
            row  |-> [user_id   |-> team.Members[i].UserId,
                      username  |-> team.Members[i].Username,
                      team_name |-> team.TeamName,
                      is_active |-> team.Members[i].IsActive]]]

\* One statement on tables whose pull_requests.author_id references nothing:
\* the DELETE removes the authors too
ExecStatementUnreferenced(db, stmt) ==
    IF stmt.kind = "insert_team"
    THEN [err |-> Nil, teams |-> db.teams \cup {stmt.name}, users |-> db.users]
    ELSE IF stmt.kind = "delete_users"
    THEN [err |-> Nil, teams |-> db.teams,
          users |-> SelectSeq(db.users, LAMBDA r : r.team_name # stmt.name)]
    ELSE [err |-> Nil, teams |-> db.teams,
          users |-> UpsertUser(db.users, stmt.row)]

\* One statement on the tables db = [teams, users]: [err, teams, users]
ExecStatement(db, stmt) ==
    IF stmt.kind = "insert_team"
    THEN [err |-> Nil, teams |-> db.teams \cup {stmt.name}, users |-> db.users]
    ELSE IF stmt.kind = "delete_users"
    THEN LET gone == {db.users[i].user_id : i \in {j \in 1..Len(db.users) :
                                      db.users[j].team_name = stmt.name}}
             authors == {pull_requests[p].author_id : p \in DOMAIN pull_requests}
         IN  IF gone \cap authors # {}
             THEN [err |-> StoreError, teams |-> db.teams, users |-> db.users]
             ELSE [err |-> Nil, teams |-> db.teams,
                   users |-> SelectSeq(db.users,
                                       LAMBDA r : r.team_name # stmt.name)]
    ELSE [err |-> Nil, teams |-> db.teams,
          users |-> UpsertUser(db.users, stmt.row)]

\* the first n statements of stmts on db, one after the other
RECURSIVE ExecFirst(_, _, _)
ExecFirst(db, stmts, n) ==
    IF n = 0 THEN [err |-> Nil, teams |-> db.teams, users |-> db.users]
    ELSE LET before == ExecFirst(db, stmts, n - 1)
         IN  IF before.err # Nil THEN before
             ELSE ExecStatement(before, stmts[n])

\* tx.Exec with the statement committed at once, as db.Exec would
TxExecAutocommit(team, done) ==
    ExecStatement([teams |-> teams, users |-> users],
                  SaveTeamStatements(team)[done + 1])

\* tx.Exec of statement done + 1 of SaveTeam(team): [err, teams, users], the
\* error of the statement and the tables the other connections read after
\* it.  The statement runs on the tables with the earlier statements of the
\* transaction applied; PostgreSQL shows its writes to no other connection
\* before the commit.
TxExec(team, done) ==
    LET stmts == SaveTeamStatements(team)
        own   == ExecFirst([teams |-> teams, users |-> users], stmts, done)
    IN  [err   |-> ExecStatement(own, stmts[done + 1]).err,
         teams |-> teams,
         users |-> users]

\* tx.Commit of SaveTeam(team): the tables with every statement applied
TxCommit(team) ==
    LET stmts == SaveTeamStatements(team)
    IN  ExecFirst([teams |-> teams, users |-> users], stmts, Len(stmts))

\* --------------------------------------------------- storage: pull requests

\* json.Marshal of a []string: a nil slice is the JSON null, any other an array
jsonMarshal(reviewers) ==
    IF Len(reviewers) = 0
    THEN [kind |-> "null", elems |-> <<>>]
    ELSE [kind |-> "array", elems |-> reviewers]

\* json.Unmarshal into a []string: null leaves the nil slice
jsonUnmarshal(j) == IF j.kind = "null" THEN <<>> ELSE j.elems

\* Storage.PullRequestExists:
\* SELECT EXISTS(SELECT 1 FROM pull_requests WHERE pull_request_id=$1)
PullRequestExists(id) == id \in DOMAIN pull_requests

\* SavePullRequest with merged_at missing from the DO UPDATE SET list
SavePullRequestKeepsMergedAt(pr) ==
    LET id == pr.PullRequestId
        reviewersJSON == jsonMarshal(pr.AssignedReviewers)
    IN  IF id \in DOMAIN pull_requests
        THEN [pull_requests EXCEPT
                 ![id].pull_request_name  = pr.PullRequestName,
                 ![id].assigned_reviewers = reviewersJSON,
                 ![id].status             = pr.Status]
        ELSE (id :> [pull_request_id    |-> id,
                     pull_request_name  |-> pr.PullRequestName,
                     author_id          |-> pr.AuthorId,
                     assigned_reviewers |-> reviewersJSON,
                     status             |-> pr.Status,
                     created_at         |-> pr.CreatedAt,
                     merged_at          |-> pr.MergedAt]) @@ pull_requests

\* SavePullRequest whose update merges the reviewers of the request into the
\* stored ones: position by position, the stored reviewer stays where the
\* request has the reviewer of the other position of the stored list
SavePullRequestMergesReviewers(pr) ==
    LET id == pr.PullRequestId
        reviewersJSON == jsonMarshal(pr.AssignedReviewers)
    IN  IF id \in DOMAIN pull_requests
        THEN LET stored == jsonUnmarshal(pull_requests[id].assigned_reviewers)
                 merged == [i \in 1..Len(pr.AssignedReviewers) |->
                               IF /\ i <= Len(stored)
                                  /\ \E j \in 1..Len(stored) :
                                        j # i /\ stored[j] = pr.AssignedReviewers[i]
                               THEN stored[i]
                               ELSE pr.AssignedReviewers[i]]
             IN  [pull_requests EXCEPT
                     ![id].pull_request_name  = pr.PullRequestName,
                     ![id].assigned_reviewers = jsonMarshal(merged),
                     ![id].status             = pr.Status,
                     ![id].merged_at          = pr.MergedAt]
        ELSE (id :> [pull_request_id    |-> id,
                     pull_request_name  |-> pr.PullRequestName,
                     author_id          |-> pr.AuthorId,
                     assigned_reviewers |-> reviewersJSON,
                     status             |-> pr.Status,
                     created_at         |-> pr.CreatedAt,
                     merged_at          |-> pr.MergedAt]) @@ pull_requests

\* Storage.SavePullRequest: INSERT ... ON CONFLICT (pull_request_id) DO UPDATE
\* SET pull_request_name, assigned_reviewers, status, merged_at.  The update
\* leaves author_id and created_at of the stored row.
SavePullRequest(pr) ==
    LET id == pr.PullRequestId
        reviewersJSON == jsonMarshal(pr.AssignedReviewers)
    IN  IF id \in DOMAIN pull_requests
        THEN [pull_requests EXCEPT
                 ![id].pull_request_name  = pr.PullRequestName,
                 ![id].assigned_reviewers = reviewersJSON,
                 ![id].status             = pr.Status,
                 ![id].merged_at          = pr.MergedAt]
        ELSE (id :> [pull_request_id    |-> id,
                     pull_request_name  |-> pr.PullRequestName,
                     author_id          |-> pr.AuthorId,
                     assigned_reviewers |-> reviewersJSON,
                     status             |-> pr.Status,
                     created_at         |-> pr.CreatedAt,
                     merged_at          |-> pr.MergedAt]) @@ pull_requests

\* Storage.GetPullRequest: the row of id scanned into a models.PullRequest
GetPullRequest(id) ==
    LET row == pull_requests[id]
    IN  [PullRequestId     |-> row.pull_request_id,
         PullRequestName   |-> row.pull_request_name,
         AuthorId          |-> row.author_id,
         AssignedReviewers |-> jsonUnmarshal(row.assigned_reviewers),
         Status            |-> row.status,
         CreatedAt         |-> row.created_at,
         MergedAt          |-> row.merged_at]

\* jsonb_exists(j, key): j is an array with the string key among its
\* elements; the JSON null has no elements
jsonb_exists(j, key) ==
    j.kind = "array" /\ \E i \in 1..Len(j.elems) : j.elems[i] = key

\* the rows of a scan with no ORDER BY: each once, in an order the store picks
RECURSIVE ScanOrder(_)
ScanOrder(ids) ==
    IF ids = {} THEN <<>>
    ELSE LET id == CHOOSE x \in ids : TRUE
         IN  <<id>> \o ScanOrder(ids \ {id})

\* GetPullRequestsByReviewer with AND status='OPEN' added to the WHERE clause
GetPullRequestsByReviewerOpenOnly(userId) ==
    LET scan == ScanOrder({id \in DOMAIN pull_requests :
                    /\ jsonb_exists(pull_requests[id].assigned_reviewers, userId)
                    /\ pull_requests[id].status = OPEN})
    IN  [i \in 1..Len(scan) |->
            LET row == pull_requests[scan[i]]
            IN  [PullRequestId     |-> row.pull_request_id,
                 PullRequestName   |-> row.pull_request_name,
                 AuthorId          |-> row.author_id,
                 AssignedReviewers |-> jsonUnmarshal(row.assigned_reviewers),
                 Status            |-> row.status]]

\* Storage.GetPullRequestsByReviewer: SELECT pull_request_id,
\* pull_request_name, author_id, assigned_reviewers, status FROM pull_requests
\* WHERE jsonb_exists(assigned_reviewers::jsonb, $1)
GetPullRequestsByReviewer(userId) ==
    LET scan == ScanOrder({id \in DOMAIN pull_requests :
                    jsonb_exists(pull_requests[id].assigned_reviewers, userId)})
    IN  [i \in 1..Len(scan) |->
            LET row == pull_requests[scan[i]]
            IN  [PullRequestId     |-> row.pull_request_id,
                 PullRequestName   |-> row.pull_request_name,
                 AuthorId          |-> row.author_id,
                 AssignedReviewers |-> jsonUnmarshal(row.assigned_reviewers),
                 Status            |-> row.status]]

\* ---------------------------------------------------------------- service

\* the maxCount CreatePullRequest passes to findActiveReviewers
maxReviewers == 2

\* findActiveReviewers without the test of member.IsActive
findAnyReviewers(team, excludeUserId, maxCount) ==
    SubSeq(SelectSeq([i \in 1..Len(team.Members) |-> team.Members[i].UserId],
                     LAMBDA u : u # excludeUserId),
           1,
           IF maxCount <= Cardinality({i \in 1..Len(team.Members) :
                                          team.Members[i].UserId # excludeUserId})
           THEN maxCount
           ELSE Cardinality({i \in 1..Len(team.Members) :
                                team.Members[i].UserId # excludeUserId}))

\* the loop of findActiveReviewers from member i on, reviewers collected so far
RECURSIVE reviewersFrom(_, _, _, _, _)
reviewersFrom(members, i, excludeUserId, maxCount, reviewers) ==
    IF i > Len(members) THEN reviewers
    ELSE IF members[i].UserId # excludeUserId /\ members[i].IsActive
         THEN LET more == Append(reviewers, members[i].UserId)
              IN  IF Len(more) >= maxCount THEN more
                  ELSE reviewersFrom(members, i + 1, excludeUserId, maxCount, more)
         ELSE reviewersFrom(members, i + 1, excludeUserId, maxCount, reviewers)

\* findActiveReviewers without the break at maxCount
findAllActiveReviewers(team, excludeUserId, maxCount) ==
    reviewersFrom(team.Members, 1, excludeUserId, Len(team.Members) + 1, <<>>)

\* Service.findActiveReviewers
findActiveReviewers(team, excludeUserId, maxCount) ==
    reviewersFrom(team.Members, 1, excludeUserId, maxCount, <<>>)

\* CreateTeam without the TeamExists test
CreateTeamOverwrites(team) == SaveTeam(team)

\* Service.CreateTeam: [err, teams, users] of the call
CreateTeamCall(team) ==
    IF TeamExists(team.TeamName)
    THEN [err |-> ErrTeamExists, teams |-> teams, users |-> users]
    ELSE SaveTeam(team)

\* the error of Storage.GetTeam: that of the query or of a row scan, nil
\* when the store answers, whether a row matches or not
GetTeamErr(name) == Nil

\* Service.GetTeam: [err, team] of the call, team is <<>> for a nil pointer
GetTeamCall(name) ==
    IF GetTeamErr(name) # Nil
    THEN [err |-> ErrTeamNotFound, team |-> <<>>]
    ELSE [err |-> Nil, team |-> <<GetTeam(name)>>]

\* SetUserActive that saves a user built from the request, without GetUser
SetUserActiveFromRequest(userId, isActive) ==
    LET user == [UserId |-> userId, Username |-> "", TeamName |-> "",
                 IsActive |-> isActive]
    IN  [err |-> Nil, user |-> <<user>>, users |-> SaveUser(user)]

\* Service.SetUserActive: [err, user, users] of the call
SetUserActiveCall(userId, isActive) ==
    IF ~UserExists(userId)
    THEN [err |-> ErrUserNotFound, user |-> <<>>, users |-> users]
    ELSE LET user == [GetUser(userId) EXCEPT !.IsActive = isActive]
         IN  [err |-> Nil, user |-> <<user>>, users |-> SaveUser(user)]

\* CreatePullRequest that stores the pull request before it looks up the
\* author and the team
CreatePullRequestSavesFirst(prId, prName, authorId) ==
    LET reviewers == IF UserExists(authorId)
                     THEN findActiveReviewers(GetTeam(GetUser(authorId).TeamName),
                                              authorId, maxReviewers)
                     ELSE <<>>
        pr == [PullRequestId     |-> prId,
               PullRequestName   |-> prName,
               AuthorId          |-> authorId,
               AssignedReviewers |-> reviewers,
               Status            |-> OPEN,
               CreatedAt         |-> <<clock>>,
               MergedAt          |-> NoTime]
    IN  IF ~UserExists(authorId)
        THEN [err |-> ErrUserNotFound, pr |-> <<>>,
              pull_requests |-> SavePullRequest(pr), ticks |-> 1,
              saved |-> TRUE]
        ELSE [err |-> Nil, pr |-> <<pr>>,
              pull_requests |-> SavePullRequest(pr), ticks |-> 1,
              saved |-> TRUE]

\* Service.CreatePullRequest: [err, pr, pull_requests, ticks, saved] of the
\* call; pr is <<>> for a nil pointer, ticks counts the reads of time.Now(),
\* saved tells whether SavePullRequest was called.
\* The service drops the boolean PullRequestExists returns and looks at its
\* error alone, which is nil when the store answers, so the ErrPRExists
\* return is not taken; GetTeam of this revision has no error of its own, so
\* neither is the ErrTeamNotFound return.  The selection may be empty: this
\* revision has no ErrNoCandidate return (src/internal/service/service.go
\* lines 84 and 100 are the earlier forms of both tests).
CreatePullRequestCall(prId, prName, authorId) ==
    IF ~UserExists(authorId)
    THEN [err |-> ErrUserNotFound, pr |-> <<>>,
          pull_requests |-> pull_requests, ticks |-> 0, saved |-> FALSE]
    ELSE LET author == GetUser(authorId)
             team == GetTeam(author.TeamName)
             reviewers == findActiveReviewers(team, authorId, maxReviewers)
             pr == [PullRequestId     |-> prId,
                    PullRequestName   |-> prName,
                    AuthorId          |-> authorId,
                    AssignedReviewers |-> reviewers,
                    Status            |-> OPEN,
                    CreatedAt         |-> <<clock>>,
                    MergedAt          |-> NoTime]
         IN  [err |-> Nil, pr |-> <<pr>>,
              pull_requests |-> SavePullRequest(pr), ticks |-> 1, saved |-> TRUE]

\* MergePullRequest without the test of the stored status
MergeAlwaysWrites(prId) ==
    IF ~PullRequestExists(prId)
    THEN [err |-> ErrPRNotFound, pr |-> <<>>,
          pull_requests |-> pull_requests, ticks |-> 0, saved |-> FALSE]
    ELSE LET pr == GetPullRequest(prId)
             merged == [pr EXCEPT !.Status = MERGED, !.MergedAt = <<clock>>]
         IN  [err |-> Nil, pr |-> <<merged>>,
              pull_requests |-> SavePullRequest(merged),
              ticks |-> 1, saved |-> TRUE]

\* MergePullRequest that saves a MERGED record when it finds none
MergeCreatesMissing(prId) ==
    LET pr == IF PullRequestExists(prId)
              THEN GetPullRequest(prId)
              ELSE [PullRequestId     |-> prId,
                    PullRequestName   |-> "",
                    AuthorId          |-> "",
                    AssignedReviewers |-> <<>>,
                    Status            |-> OPEN,
                    CreatedAt         |-> NoTime,
                    MergedAt          |-> NoTime]
    IN  IF pr.Status = MERGED
        THEN [err |-> Nil, pr |-> <<pr>>,
              pull_requests |-> pull_requests, ticks |-> 0, saved |-> FALSE]
        ELSE LET merged == [pr EXCEPT !.Status = MERGED,
                                      !.MergedAt = <<clock>>]
             IN  [err |-> Nil, pr |-> <<merged>>,
                  pull_requests |-> SavePullRequest(merged),
                  ticks |-> 1, saved |-> TRUE]

\* Service.MergePullRequest: [err, pr, pull_requests, ticks, saved] of the call
MergePullRequestCall(prId) ==
    IF ~PullRequestExists(prId)
    THEN [err |-> ErrPRNotFound, pr |-> <<>>,
          pull_requests |-> pull_requests, ticks |-> 0, saved |-> FALSE]
    ELSE LET pr == GetPullRequest(prId)
         IN  IF pr.Status = MERGED
             THEN [err |-> Nil, pr |-> <<pr>>,
                   pull_requests |-> pull_requests, ticks |-> 0, saved |-> FALSE]
             ELSE LET merged == [pr EXCEPT !.Status = MERGED,
                                           !.MergedAt = <<clock>>]
                  IN  [err |-> Nil, pr |-> <<merged>>,
                       pull_requests |-> SavePullRequest(merged),
                       ticks |-> 1, saved |-> TRUE]

\* the search loop of ReassignReviewer: the first index of oldReviewerId in
\* reviewers at or after i, 0 when there is none
RECURSIVE indexOf(_, _, _)
indexOf(reviewers, oldReviewerId, i) ==
    IF i > Len(reviewers) THEN 0
    ELSE IF reviewers[i] = oldReviewerId THEN i
    ELSE indexOf(reviewers, oldReviewerId, i + 1)

\* ReassignReviewer with the search for the old reviewer before the test of
\* the status
ReassignSearchesFirst(prId, oldReviewerId, newReviewerId) ==
    IF ~PullRequestExists(prId)
    THEN [err |-> ErrPRNotFound, pr |-> <<>>,
          pull_requests |-> pull_requests, saved |-> FALSE]
    ELSE LET pr == GetPullRequest(prId)
             i  == indexOf(pr.AssignedReviewers, oldReviewerId, 1)
         IN  IF i = 0
             THEN [err |-> ErrReviewerNotAssigned, pr |-> <<>>,
                   pull_requests |-> pull_requests, saved |-> FALSE]
             ELSE IF pr.Status = MERGED
             THEN [err |-> ErrPRMerged, pr |-> <<>>,
                   pull_requests |-> pull_requests, saved |-> FALSE]
             ELSE LET updated == [pr EXCEPT !.AssignedReviewers[i] = newReviewerId]
                  IN  [err |-> Nil, pr |-> <<updated>>,
                       pull_requests |-> SavePullRequest(updated),
                       saved |-> TRUE]

\* ReassignReviewer without the test of found: the record is saved as read
ReassignIgnoresNotFound(prId, oldReviewerId, newReviewerId) ==
    IF ~PullRequestExists(prId)
    THEN [err |-> ErrPRNotFound, pr |-> <<>>,
          pull_requests |-> pull_requests, saved |-> FALSE]
    ELSE LET pr == GetPullRequest(prId)
             i  == indexOf(pr.AssignedReviewers, oldReviewerId, 1)
         IN  IF pr.Status = MERGED
             THEN [err |-> ErrPRMerged, pr |-> <<>>,
                   pull_requests |-> pull_requests, saved |-> FALSE]
             ELSE LET updated == IF i = 0 THEN pr
                                 ELSE [pr EXCEPT !.AssignedReviewers[i] = newReviewerId]
                  IN  [err |-> Nil, pr |-> <<updated>>,
                       pull_requests |-> SavePullRequest(updated),
                       saved |-> TRUE]

\* ReassignReviewer without the break: every occurrence of the old reviewer
\* is replaced
ReassignReplacesAll(prId, oldReviewerId, newReviewerId) ==
    IF ~PullRequestExists(prId)
    THEN [err |-> ErrPRNotFound, pr |-> <<>>,
          pull_requests |-> pull_requests, saved |-> FALSE]
    ELSE LET pr == GetPullRequest(prId)
             i  == indexOf(pr.AssignedReviewers, oldReviewerId, 1)
         IN  IF pr.Status = MERGED
             THEN [err |-> ErrPRMerged, pr |-> <<>>,
                   pull_requests |-> pull_requests, saved |-> FALSE]
             ELSE IF i = 0
             THEN [err |-> ErrReviewerNotAssigned, pr |-> <<>>,
                   pull_requests |-> pull_requests, saved |-> FALSE]
             ELSE LET updated ==
                        [pr EXCEPT !.AssignedReviewers =
                            [j \in 1..Len(pr.AssignedReviewers) |->
                                IF pr.AssignedReviewers[j] = oldReviewerId
                                THEN newReviewerId
                                ELSE pr.AssignedReviewers[j]]]
                  IN  [err |-> Nil, pr |-> <<updated>>,
                       pull_requests |-> SavePullRequest(updated),
                       saved |-> TRUE]

\* ReassignReviewer that takes a registered, active user only as the new
\* reviewer
ReassignChecksNewReviewer(prId, oldReviewerId, newReviewerId) ==
    IF ~PullRequestExists(prId)
    THEN [err |-> ErrPRNotFound, pr |-> <<>>,
          pull_requests |-> pull_requests, saved |-> FALSE]
    ELSE LET pr == GetPullRequest(prId)
             i  == indexOf(pr.AssignedReviewers, oldReviewerId, 1)
         IN  IF pr.Status = MERGED
             THEN [err |-> ErrPRMerged, pr |-> <<>>,
                   pull_requests |-> pull_requests, saved |-> FALSE]
             ELSE IF i = 0
             THEN [err |-> ErrReviewerNotAssigned, pr |-> <<>>,
                   pull_requests |-> pull_requests, saved |-> FALSE]
             ELSE IF ~UserExists(newReviewerId) \/ ~GetUser(newReviewerId).IsActive
             THEN [err |-> ErrNoCandidate, pr |-> <<>>,
                   pull_requests |-> pull_requests, saved |-> FALSE]
             ELSE LET updated == [pr EXCEPT !.AssignedReviewers[i] = newReviewerId]
                  IN  [err |-> Nil, pr |-> <<updated>>,
                       pull_requests |-> SavePullRequest(updated),
                       saved |-> TRUE]

\* Service.ReassignReviewer: [err, pr, pull_requests, saved] of the call
ReassignReviewerCall(prId, oldReviewerId, newReviewerId) ==
    IF ~PullRequestExists(prId)
    THEN [err |-> ErrPRNotFound, pr |-> <<>>,
          pull_requests |-> pull_requests, saved |-> FALSE]
    ELSE LET pr == GetPullRequest(prId)
             i  == indexOf(pr.AssignedReviewers, oldReviewerId, 1)
         IN  IF pr.Status = MERGED
             THEN [err |-> ErrPRMerged, pr |-> <<>>,
                   pull_requests |-> pull_requests, saved |-> FALSE]
             ELSE IF i = 0
             THEN [err |-> ErrReviewerNotAssigned, pr |-> <<>>,
                   pull_requests |-> pull_requests, saved |-> FALSE]
             ELSE LET updated == [pr EXCEPT !.AssignedReviewers[i] = newReviewerId]
                  IN  [err |-> Nil, pr |-> <<updated>>,
                       pull_requests |-> SavePullRequest(updated),
                       saved |-> TRUE]

\* Service.GetUserPullRequests: one models.PullRequestShort per pull request
\* the store returns
GetUserPullRequests(userId) ==
    LET prs == GetPullRequestsByReviewer(userId)
    IN  [i \in 1..Len(prs) |->
            [PullRequestId   |-> prs[i].PullRequestId,
             PullRequestName |-> prs[i].PullRequestName,
             AuthorId        |-> prs[i].AuthorId,
             Status          |-> prs[i].Status]]

\* ------------------------------------------------ service: a failing store
\* The calls above are those of a store that answers.  The ones below are the
\* same calls with one method of Storage returning an error (the connection
\* is lost, the query is cancelled): failing names the method.  A method the
\* call does not reach does not fail.  A write that fails is rolled back
\* (tx.Rollback in the deferred function, or the single statement fails) and
\* leaves the tables as they were.

\* Service.CreateTeam with a failing store
CreateTeamFailing(team, failing) ==
    IF failing = "TeamExists"
    THEN [err |-> StoreError, teams |-> teams, users |-> users]
    ELSE IF TeamExists(team.TeamName)
    THEN [err |-> ErrTeamExists, teams |-> teams, users |-> users]
    ELSE IF failing = "SaveTeam"
    THEN [err |-> StoreError, teams |-> teams, users |-> users]
    ELSE CreateTeamCall(team)

\* Service.GetTeam with a failing store
GetTeamFailing(name, failing) ==
    IF failing = "GetTeam"
    THEN [err |-> ErrTeamNotFound, team |-> <<>>]
    ELSE GetTeamCall(name)

\* Service.SetUserActive with a failing store
SetUserActiveFailing(userId, isActive, failing) ==
    IF failing = "GetUser" \/ ~UserExists(userId)
    THEN [err |-> ErrUserNotFound, user |-> <<>>, users |-> users]
    ELSE IF failing = "SaveUser"
    THEN [err |-> StoreError, user |-> <<>>, users |-> users]
    ELSE SetUserActiveCall(userId, isActive)

\* Service.CreatePullRequest with a failing store
CreatePullRequestFailing(prId, prName, authorId, failing) ==
    IF failing = "PullRequestExists"
    THEN [err |-> ErrPRExists, pr |-> <<>>,
          pull_requests |-> pull_requests, ticks |-> 0, saved |-> FALSE]
    ELSE IF failing = "GetUser" \/ ~UserExists(authorId)
    THEN [err |-> ErrUserNotFound, pr |-> <<>>,
          pull_requests |-> pull_requests, ticks |-> 0, saved |-> FALSE]
    ELSE IF failing = "GetTeam"
    THEN [err |-> ErrTeamNotFound, pr |-> <<>>,
          pull_requests |-> pull_requests, ticks |-> 0, saved |-> FALSE]
    ELSE IF failing = "SavePullRequest"
    THEN [err |-> StoreError, pr |-> <<>>,
          pull_requests |-> pull_requests, ticks |-> 1, saved |-> FALSE]
    ELSE CreatePullRequestCall(prId, prName, authorId)

\* Service.MergePullRequest with a failing store
MergePullRequestFailing(prId, failing) ==
    IF failing = "GetPullRequest" \/ ~PullRequestExists(prId)
    THEN [err |-> ErrPRNotFound, pr |-> <<>>,
          pull_requests |-> pull_requests, ticks |-> 0, saved |-> FALSE]
    ELSE IF GetPullRequest(prId).Status # MERGED /\ failing = "SavePullRequest"
    THEN [err |-> StoreError, pr |-> <<>>,
          pull_requests |-> pull_requests, ticks |-> 1, saved |-> FALSE]
    ELSE MergePullRequestCall(prId)

\* Service.ReassignReviewer with a failing store
ReassignReviewerFailing(prId, oldReviewerId, newReviewerId, failing) ==
    IF failing = "GetPullRequest" \/ ~PullRequestExists(prId)
    THEN [err |-> ErrPRNotFound, pr |-> <<>>,
          pull_requests |-> pull_requests, saved |-> FALSE]
    ELSE LET r == ReassignReviewerCall(prId, oldReviewerId, newReviewerId)
         IN  IF r.saved /\ failing = "SavePullRequest"
             THEN [err |-> StoreError, pr |-> <<>>,
                   pull_requests |-> pull_requests, saved |-> FALSE]
             ELSE r

\* ---------------------------------------------------------------- actions

Init ==
    /\ teams = {}
    /\ users = <<>>
    /\ pull_requests = <<>>
    /\ clock = 0
    /\ calls = <<>>
    /\ last = [op |-> "none", err |-> Nil, saved |-> FALSE]

\* One action per handler of the api Server, named as the handler; the
\* request body is the parameter.  The handler runs the service call and
\* answers; the tables after it are those the call left.

\* Server.PostTeamAdd
PostTeamAdd(team) ==
    LET r == CreateTeamCall(team)
    IN  /\ teams' = r.teams
        /\ users' = r.users
        /\ last' = [op |-> "CreateTeam", err |-> r.err, saved |-> r.err = Nil]
        /\ UNCHANGED <<pull_requests, clock, calls>>

\* PostUsersSetIsActive that also takes a user who is switched off out of the
\* reviewers of the pull requests that are not merged
PostUsersSetIsActiveUnassigns(userId, isActive) ==
    LET r == SetUserActiveCall(userId, isActive)
    IN  /\ users' = r.users
        /\ pull_requests' =
              [id \in DOMAIN pull_requests |->
                  IF r.err = Nil /\ ~isActive /\ pull_requests[id].status = OPEN
                  THEN [pull_requests[id] EXCEPT !.assigned_reviewers =
                           jsonMarshal(SelectSeq(jsonUnmarshal(@),
                                                 LAMBDA u : u # userId))]
                  ELSE pull_requests[id]]
        /\ last' = [op |-> "SetUserActive", err |-> r.err,
                    saved |-> r.err = Nil]
        /\ UNCHANGED <<teams, clock, calls>>

\* Server.PostUsersSetIsActive
PostUsersSetIsActive(userId, isActive) ==
    LET r == SetUserActiveCall(userId, isActive)
    IN  /\ users' = r.users
        /\ last' = [op |-> "SetUserActive", err |-> r.err,
                    saved |-> r.err = Nil]
        /\ UNCHANGED <<teams, pull_requests, clock, calls>>

\* Server.PostPullRequestCreate
PostPullRequestCreate(prId, prName, authorId) ==
    LET r == CreatePullRequestCall(prId, prName, authorId)
    IN  /\ clock + r.ticks <= MaxClock
        /\ pull_requests' = r.pull_requests
        /\ clock' = clock + r.ticks
        /\ last' = [op |-> "CreatePullRequest", err |-> r.err,
                    saved |-> r.saved]
        /\ UNCHANGED <<teams, users, calls>>

\* Server.PostPullRequestMerge
PostPullRequestMerge(prId) ==
    LET r == MergePullRequestCall(prId)
    IN  /\ clock + r.ticks <= MaxClock
        /\ pull_requests' = r.pull_requests
        /\ clock' = clock + r.ticks
        /\ last' = [op |-> "MergePullRequest", err |-> r.err,
                    saved |-> r.saved]
        /\ UNCHANGED <<teams, users, calls>>

\* Server.PostPullRequestReassign
PostPullRequestReassign(prId, oldReviewerId, newReviewerId) ==
    LET r == ReassignReviewerCall(prId, oldReviewerId, newReviewerId)
    IN  /\ pull_requests' = r.pull_requests
        /\ last' = [op |-> "ReassignReviewer", err |-> r.err,
                    saved |-> r.saved]
        /\ UNCHANGED <<teams, users, clock, calls>>

\* The member list of a request for a registered name is never read: one
\* list stands for all of them there.
CreateTeam ==
    \E name \in TeamNames :
    \E members \in IF TeamExists(name) THEN {<<>>} ELSE MemberLists :
        PostTeamAdd([TeamName |-> name, Members |-> members])

SetUserActive ==
    \E userId \in UserIds, isActive \in BOOLEAN :
        PostUsersSetIsActive(userId, isActive)

CreatePullRequest ==
    \E prId \in PrIds, prName \in PrNames, authorId \in UserIds :
        PostPullRequestCreate(prId, prName, authorId)

MergePullRequest ==
    \E prId \in PrIds : PostPullRequestMerge(prId)

ReassignReviewer ==
    \E prId \in PrIds, oldReviewerId \in UserIds, newReviewerId \in UserIds :
        PostPullRequestReassign(prId, oldReviewerId, newReviewerId)

Next ==
    \/ CreateTeam
    \/ SetUserActive
    \/ CreatePullRequest
    \/ MergePullRequest
    \/ ReassignReviewer

Spec == Init /\ [][Next]_vars

\* A second specification for the claims about the order of a team's members.
\* It starts right after CreateTeam("t1", <<u1, u2, u3>>) returned nil, with any
\* active flags in the request: a state Spec reaches in one step.
GivenOrder == <<"u1", "u2", "u3">>

InitTeam ==
    /\ teams = {"t1"}
    /\ \E flags \in [1..Len(GivenOrder) -> BOOLEAN] :
          users = [i \in 1..Len(GivenOrder) |->
                      [user_id |-> GivenOrder[i], username |-> "Alice",
                       team_name |-> "t1", is_active |-> flags[i]]]
    /\ pull_requests = <<>>
    /\ clock = 0
    /\ calls = <<>>
    /\ last = [op |-> "CreateTeam", err |-> Nil, saved |-> TRUE]

SpecTeam == InitTeam /\ [][Next]_vars

\* Server.GetUsersGetReview: a read, the tables stay as they are
GetUsersGetReview(userId) ==
    /\ last' = [op |-> "GetUserPullRequests", err |-> Nil, saved |-> FALSE]
    /\ UNCHANGED <<teams, users, pull_requests, clock, calls>>

\* A specification for the claims about the review list of a user: two pull
\* request ids, created, merged, reassigned and listed.  It starts right after
\* CreateTeam("t1", <<u1, u2, u3>>) returned nil with u1 alone active, so that
\* a pull request of u1 gets no reviewer and one of u2 or u3 gets u1.
ReviewPrIds == {"p1", "p2"}

InitReview ==
    /\ teams = {"t1"}
    /\ users = [i \in 1..Len(GivenOrder) |->
                    [user_id |-> GivenOrder[i], username |-> "Alice",
                     team_name |-> "t1", is_active |-> (i = 1)]]
    /\ pull_requests = <<>>
    /\ clock = 0
    /\ calls = <<>>
    /\ last = [op |-> "CreateTeam", err |-> Nil, saved |-> TRUE]

CreateReview ==
    \E prId \in ReviewPrIds, prName \in PrNames, authorId \in UserIds :
        PostPullRequestCreate(prId, prName, authorId)

MergeReview ==
    \E prId \in ReviewPrIds : PostPullRequestMerge(prId)

ReassignReview ==
    \E prId \in ReviewPrIds, oldReviewerId \in UserIds,
       newReviewerId \in UserIds :
        PostPullRequestReassign(prId, oldReviewerId, newReviewerId)

GetReview ==
    \E userId \in UserIds : GetUsersGetReview(userId)

NextReview ==
    \/ CreateReview
    \/ MergeReview
    \/ ReassignReview
    \/ GetReview

SpecReview == InitReview /\ [][NextReview]_vars

\* A specification for the claims about a user who is listed in two teams:
\* two team names and two user ids, every handler of Spec.
MoveTeamNames == {"t1", "t2"}

MoveUserIds == {"u1", "u2"}

MoveMemberLists ==
    SeqsUpTo([UserId : MoveUserIds, Username : Usernames, IsActive : BOOLEAN],
             MaxMembers)

CreateTeamMove ==
    \E name \in MoveTeamNames :
    \E members \in IF TeamExists(name) THEN {<<>>} ELSE MoveMemberLists :
        PostTeamAdd([TeamName |-> name, Members |-> members])

SetUserActiveMove ==
    \E userId \in MoveUserIds, isActive \in BOOLEAN :
        PostUsersSetIsActive(userId, isActive)

CreatePullRequestMove ==
    \E prId \in PrIds, authorId \in MoveUserIds :
        PostPullRequestCreate(prId, "x", authorId)

ReassignReviewerMove ==
    \E prId \in PrIds, oldReviewerId \in MoveUserIds,
       newReviewerId \in MoveUserIds :
        PostPullRequestReassign(prId, oldReviewerId, newReviewerId)

NextMove ==
    \/ CreateTeamMove
    \/ SetUserActiveMove
    \/ CreatePullRequestMove
    \/ MergePullRequest
    \/ ReassignReviewerMove

SpecMove == Init /\ [][NextMove]_vars

\* Server.GetTeamGet: a read, the tables stay as they are
GetTeamGet(name) ==
    /\ last' = [op |-> "GetTeam", err |-> GetTeamCall(name).err,
                saved |-> FALSE]
    /\ UNCHANGED <<teams, users, pull_requests, clock, calls>>

\* A specification for the claims about what the other connections read
\* while a CreateTeam runs.  The call of connection c is a sequence of steps:
\* the TeamExists test with tx.Begin, one step per statement, tx.Commit.
\* Between two steps the other clients read teams, switch users and create
\* teams of other names.  A statement that needs a row the open transaction
\* wrote waits for the commit: it is not enabled before.
Connections == {"c1"}

\* the member lists of these requests: all active, SetUserActive switches them
AtomicMemberLists ==
    SeqsUpTo([UserId : MoveUserIds, Username : Usernames, IsActive : {TRUE}],
             MaxMembers)

\* the team names and user ids written by the open transactions
LockedTeamNames ==
    {calls[c].team.TeamName : c \in {d \in DOMAIN calls : calls[d].done >= 1}}

LockedUserIds ==
    UNION {{calls[c].team.Members[i].UserId :
               i \in 1..(IF calls[c].done >= 2 THEN calls[c].done - 2 ELSE 0)} :
           c \in DOMAIN calls}

\* the next statement of the transaction of connection c needs a row that
\* the open transaction of another connection wrote: the team of its INSERT
\* or the user of its upsert; it waits for the commit of that transaction
Waits(c) ==
    LET stmt == SaveTeamStatements(calls[c].team)[calls[c].done + 1]
    IN  \E d \in DOMAIN calls \ {c} :
           \/ /\ stmt.kind = "insert_team"
              /\ calls[d].done >= 1
              /\ calls[d].team.TeamName = stmt.name
           \/ /\ stmt.kind = "upsert"
              /\ \E i \in 1..(calls[d].done - 2) :
                    calls[d].team.Members[i].UserId = stmt.row.user_id

\* Service.CreateTeam up to tx.Begin of SaveTeam; a registered name is
\* answered at once
CreateTeamBegin ==
    \E c \in Connections \ DOMAIN calls, name \in MoveTeamNames :
        IF TeamExists(name)
        THEN PostTeamAdd([TeamName |-> name, Members |-> <<>>])
        ELSE \E members \in AtomicMemberLists :
                /\ calls' = (c :> [team |-> [TeamName |-> name,
                                             Members |-> members],
                                   done |-> 0]) @@ calls
                /\ UNCHANGED <<teams, users, pull_requests, clock, last>>

\* one tx.Exec of SaveTeam; an error rolls the transaction back
CreateTeamExec ==
    \E c \in DOMAIN calls :
        /\ calls[c].done < Len(SaveTeamStatements(calls[c].team))
        /\ ~Waits(c)
        /\ LET r == TxExec(calls[c].team, calls[c].done)
           IN  /\ teams' = r.teams
               /\ users' = r.users
               /\ IF r.err = Nil
                  THEN /\ calls' = [calls EXCEPT ![c].done = @ + 1]
                       /\ UNCHANGED last
                  ELSE /\ calls' = [d \in DOMAIN calls \ {c} |-> calls[d]]
                       /\ last' = [op |-> "CreateTeam", err |-> StoreError,
                                   saved |-> FALSE]
        /\ UNCHANGED <<pull_requests, clock>>

\* tx.Commit of SaveTeam and the return of Service.CreateTeam
CreateTeamCommit ==
    \E c \in DOMAIN calls :
        /\ calls[c].done = Len(SaveTeamStatements(calls[c].team))
        /\ LET r == TxCommit(calls[c].team)
           IN  /\ teams' = r.teams
               /\ users' = r.users
        /\ calls' = [d \in DOMAIN calls \ {c} |-> calls[d]]
        /\ last' = [op |-> "CreateTeam", err |-> Nil, saved |-> TRUE]
        /\ UNCHANGED <<pull_requests, clock>>

\* another client creates a team of a name no open call is creating
CreateTeamOther ==
    \E name \in MoveTeamNames \
                {calls[c].team.TeamName : c \in DOMAIN calls} :
    \E members \in IF TeamExists(name) THEN {<<>>} ELSE AtomicMemberLists :
        /\ \A i \in 1..Len(members) : members[i].UserId \notin LockedUserIds
        /\ PostTeamAdd([TeamName |-> name, Members |-> members])

SetUserActiveOther ==
    \E userId \in MoveUserIds \ LockedUserIds, isActive \in BOOLEAN :
        PostUsersSetIsActive(userId, isActive)

GetTeamOther ==
    \E name \in MoveTeamNames : GetTeamGet(name)

NextAtomic ==
    \/ CreateTeamBegin
    \/ CreateTeamExec
    \/ CreateTeamCommit
    \/ CreateTeamOther
    \/ SetUserActiveOther
    \/ GetTeamOther

SpecAtomic == Init /\ [][NextAtomic]_vars

\* A specification for the claims about two calls that read and write the
\* same pull request.  MergePullRequest and ReassignReviewer are two steps
\* each: GetPullRequest with the tests on what it returned, then
\* SavePullRequest (one statement, one transaction) with the return.  Two
\* connections run them in any interleaving.  It starts right after
\* CreateTeam("t1", <<u1, u2, u3>>), all active, and CreatePullRequest("p1",
\* "x", authorId) returned nil; no step creates a pull request.
RaceConnections == {"c1", "c2"}

InitRace ==
    /\ teams = {"t1"}
    /\ users = [i \in 1..Len(GivenOrder) |->
                    [user_id |-> GivenOrder[i], username |-> "Alice",
                     team_name |-> "t1", is_active |-> TRUE]]
    /\ \E authorId \in UserIds :
          pull_requests =
              ("p1" :> [pull_request_id    |-> "p1",
                        pull_request_name  |-> "x",
                        author_id          |-> authorId,
                        assigned_reviewers |->
                            jsonMarshal(SelectSeq(GivenOrder,
                                                  LAMBDA u : u # authorId)),
                        status             |-> OPEN,
                        created_at         |-> <<0>>,
                        merged_at          |-> NoTime])
    /\ clock = 1
    /\ calls = <<>>
    /\ last = [op |-> "CreatePullRequest", err |-> Nil, saved |-> TRUE]

\* Service.MergePullRequest up to its SavePullRequest: a call that returns
\* without a write is complete here
MergeRead ==
    \E c \in RaceConnections \ DOMAIN calls, prId \in PrIds :
        IF ~MergePullRequestCall(prId).saved
        THEN PostPullRequestMerge(prId)
        ELSE /\ calls' = (c :> [op |-> "MergePullRequest",
                                pr |-> GetPullRequest(prId)]) @@ calls
             /\ UNCHANGED <<teams, users, pull_requests, clock, last>>

\* time.Now(), SavePullRequest and the return of Service.MergePullRequest
MergeWrite ==
    \E c \in DOMAIN calls :
        /\ calls[c].op = "MergePullRequest"
        /\ clock + 1 <= MaxClock
        /\ pull_requests' = SavePullRequest([calls[c].pr EXCEPT
                                                !.Status = MERGED,
                                                !.MergedAt = <<clock>>])
        /\ clock' = clock + 1
        /\ calls' = [d \in DOMAIN calls \ {c} |-> calls[d]]
        /\ last' = [op |-> "MergePullRequest", err |-> Nil, saved |-> TRUE]
        /\ UNCHANGED <<teams, users>>

\* Service.ReassignReviewer up to its SavePullRequest
ReassignRead ==
    \E c \in RaceConnections \ DOMAIN calls, prId \in PrIds,
       oldReviewerId \in UserIds, newReviewerId \in UserIds :
        LET r == ReassignReviewerCall(prId, oldReviewerId, newReviewerId)
        IN  IF ~r.saved
            THEN PostPullRequestReassign(prId, oldReviewerId, newReviewerId)
            ELSE /\ calls' = (c :> [op |-> "ReassignReviewer",
                                    pr |-> r.pr[1]]) @@ calls
                 /\ UNCHANGED <<teams, users, pull_requests, clock, last>>

\* SavePullRequest and the return of Service.ReassignReviewer
ReassignWrite ==
    \E c \in DOMAIN calls :
        /\ calls[c].op = "ReassignReviewer"
        /\ pull_requests' = SavePullRequest(calls[c].pr)
        /\ calls' = [d \in DOMAIN calls \ {c} |-> calls[d]]
        /\ last' = [op |-> "ReassignReviewer", err |-> Nil, saved |-> TRUE]
        /\ UNCHANGED <<teams, users, clock>>

NextRace ==
    \/ MergeRead
    \/ MergeWrite
    \/ ReassignRead
    \/ ReassignWrite

SpecRace == InitRace /\ [][NextRace]_vars

\* A specification for the claims about two CreatePullRequest calls of the
\* same id.  The call is two steps: PullRequestExists, GetUser, GetTeam, the
\* selection and time.Now(), then SavePullRequest with the return.  It starts
\* right after CreateTeam("t1", <<u1, u2>>) returned nil, with any active
\* flags; u3 is not registered.
InitCreateRace ==
    /\ teams = {"t1"}
    /\ \E flags \in [1..2 -> BOOLEAN] :
          users = [i \in 1..2 |->
                      [user_id |-> GivenOrder[i], username |-> "Alice",
                       team_name |-> "t1", is_active |-> flags[i]]]
    /\ pull_requests = <<>>
    /\ clock = 0
    /\ calls = <<>>
    /\ last = [op |-> "CreateTeam", err |-> Nil, saved |-> TRUE]

\* Service.CreatePullRequest up to its SavePullRequest
CreateRead ==
    \E c \in RaceConnections \ DOMAIN calls, prId \in PrIds,
       prName \in PrNames, authorId \in UserIds :
        LET r == CreatePullRequestCall(prId, prName, authorId)
        IN  IF ~r.saved
            THEN PostPullRequestCreate(prId, prName, authorId)
            ELSE /\ clock + r.ticks <= MaxClock
                 /\ clock' = clock + r.ticks
                 /\ calls' = (c :> [op |-> "CreatePullRequest",
                                    pr |-> r.pr[1]]) @@ calls
                 /\ UNCHANGED <<teams, users, pull_requests, last>>

\* SavePullRequest and the return of Service.CreatePullRequest
CreateWrite ==
    \E c \in DOMAIN calls :
        /\ calls[c].op = "CreatePullRequest"
        /\ pull_requests' = SavePullRequest(calls[c].pr)
        /\ calls' = [d \in DOMAIN calls \ {c} |-> calls[d]]
        /\ last' = [op |-> "CreatePullRequest", err |-> Nil, saved |-> TRUE]
        /\ UNCHANGED <<teams, users, clock>>

NextCreateRace ==
    \/ CreateRead
    \/ CreateWrite
    \/ MergeRead
    \/ MergeWrite

SpecCreateRace == InitCreateRace /\ [][NextCreateRace]_vars

\* A specification for the claims about two CreateTeam calls of the same
\* name: the steps of SpecAtomic on two connections, one team name.
CreateTeamBeginRace ==
    \E c \in RaceConnections \ DOMAIN calls, name \in TeamNames :
        IF TeamExists(name)
        THEN PostTeamAdd([TeamName |-> name, Members |-> <<>>])
        ELSE \E members \in AtomicMemberLists :
                /\ calls' = (c :> [team |-> [TeamName |-> name,
                                             Members |-> members],
                                   done |-> 0]) @@ calls
                /\ UNCHANGED <<teams, users, pull_requests, clock, last>>

NextTeamRace ==
    \/ CreateTeamBeginRace
    \/ CreateTeamExec
    \/ CreateTeamCommit
    \/ GetTeamOther

SpecTeamRace == Init /\ [][NextTeamRace]_vars

\* A specification for the claims about the author of a stored pull
\* request: the two CreateTeam calls of SpecTeamRace, and pull requests
\* created between their steps.  The INSERT of a pull request locks the row
\* of its author: it waits while an open transaction has deleted or written
\* that row, and is not enabled before the commit.
DeletedUserIds ==
    {users[i].user_id :
        i \in {j \in 1..Len(users) : users[j].team_name \in
                  {calls[c].team.TeamName :
                      c \in {d \in DOMAIN calls : calls[d].done >= 2}}}}

CreatePullRequestAuthor ==
    \E prId \in PrIds,
       authorId \in MoveUserIds \ (DeletedUserIds \cup LockedUserIds) :
        PostPullRequestCreate(prId, "x", authorId)

NextAuthor ==
    \/ CreateTeamBeginRace
    \/ CreateTeamExec
    \/ CreateTeamCommit
    \/ CreatePullRequestAuthor

SpecAuthor == Init /\ [][NextAuthor]_vars

\* A specification for the claims about the number of reviewers: a team of
\* four, so that an author has three teammates.  It starts right after
\* CreateTeam("t1", <<u1, u2, u3, u4>>) returned nil, with any active flags.
FourUserIds == UserIds \cup {"u4"}

InitFour ==
    /\ teams = {"t1"}
    /\ \E flags \in [1..4 -> BOOLEAN] :
          users = [i \in 1..4 |->
                      [user_id |-> (GivenOrder \o <<"u4">>)[i],
                       username |-> "Alice",
                       team_name |-> "t1", is_active |-> flags[i]]]
    /\ pull_requests = <<>>
    /\ clock = 0
    /\ calls = <<>>
    /\ last = [op |-> "CreateTeam", err |-> Nil, saved |-> TRUE]

CreatePullRequestFour ==
    \E prId \in PrIds, authorId \in FourUserIds :
        PostPullRequestCreate(prId, "x", authorId)

ReassignReviewerFour ==
    \E prId \in PrIds, oldReviewerId \in FourUserIds,
       newReviewerId \in FourUserIds :
        PostPullRequestReassign(prId, oldReviewerId, newReviewerId)

NextFour ==
    \/ CreatePullRequestFour
    \/ MergePullRequest
    \/ ReassignReviewerFour

SpecFour == InitFour /\ [][NextFour]_vars

\* A specification for the claims about a user who was switched off: it
\* starts right after CreateTeam("t1", <<u1, u2, u3>>), all active, and
\* SetUserActive(OffUser, false) returned nil, and no step is a
\* SetUserActive(OffUser, true).
OffUser == "u2"

InitOff ==
    /\ teams = {"t1"}
    /\ users = <<[user_id |-> "u1", username |-> "Alice",
                  team_name |-> "t1", is_active |-> TRUE],
                 [user_id |-> "u3", username |-> "Alice",
                  team_name |-> "t1", is_active |-> TRUE],
                 [user_id |-> OffUser, username |-> "Alice",
                  team_name |-> "t1", is_active |-> FALSE]>>
    /\ pull_requests = <<>>
    /\ clock = 0
    /\ calls = <<>>
    /\ last = [op |-> "SetUserActive", err |-> Nil, saved |-> TRUE]

\* the member lists of its CreateTeam requests: every member active
OffMemberLists ==
    SeqsUpTo([UserId : UserIds, Username : Usernames, IsActive : {TRUE}],
             MaxMembers)

CreateTeamOff ==
    \E name \in MoveTeamNames :
    \E members \in IF TeamExists(name) THEN {<<>>} ELSE OffMemberLists :
        PostTeamAdd([TeamName |-> name, Members |-> members])

SetUserActiveOff ==
    \E userId \in UserIds, isActive \in BOOLEAN :
        /\ ~(userId = OffUser /\ isActive)
        /\ PostUsersSetIsActive(userId, isActive)

CreatePullRequestOff ==
    \E prId \in PrIds, authorId \in UserIds :
        PostPullRequestCreate(prId, "x", authorId)

NextOff ==
    \/ CreateTeamOff
    \/ SetUserActiveOff
    \/ CreatePullRequestOff
    \/ MergePullRequest

SpecOff == InitOff /\ [][NextOff]_vars

\* A specification for the claims about the new reviewer of a reassignment:
\* the handlers of SpecMove, with the reassignments of Spec, whose third user
\* id is never registered here.  The requests of CreateTeam list active
\* members, SetUserActive switches them.
CreateTeamIndep ==
    \E name \in MoveTeamNames :
    \E members \in IF TeamExists(name) THEN {<<>>} ELSE AtomicMemberLists :
        PostTeamAdd([TeamName |-> name, Members |-> members])

NextIndep ==
    \/ CreateTeamIndep
    \/ SetUserActiveMove
    \/ CreatePullRequestMove
    \/ MergePullRequest
    \/ ReassignReviewer

SpecIndep == Init /\ [][NextIndep]_vars

\* A specification for the claims about a store that fails: the handlers of
\* SpecMove, and the same handlers with one failing method of Storage each.
\* A handler answers a failed call as it answers any other error.

\* Server.PostTeamAdd, with a failing store
CreateTeamFault ==
    \E name \in MoveTeamNames, failing \in {"TeamExists", "SaveTeam"} :
    \E members \in IF TeamExists(name) THEN {<<>>} ELSE MoveMemberLists :
        LET r == CreateTeamFailing([TeamName |-> name, Members |-> members],
                                   failing)
        IN  /\ teams' = r.teams
            /\ users' = r.users
            /\ last' = [op |-> "CreateTeam", err |-> r.err,
                        saved |-> r.err = Nil]
            /\ UNCHANGED <<pull_requests, clock, calls>>

\* Server.GetTeamGet, with or without a failing store
GetTeamFault ==
    \E name \in MoveTeamNames, failing \in {"none", "GetTeam"} :
        /\ last' = [op |-> "GetTeam", err |-> GetTeamFailing(name, failing).err,
                    saved |-> FALSE]
        /\ UNCHANGED <<teams, users, pull_requests, clock, calls>>

\* Server.PostUsersSetIsActive, with a failing store
SetUserActiveFault ==
    \E userId \in MoveUserIds, isActive \in BOOLEAN,
       failing \in {"GetUser", "SaveUser"} :
        LET r == SetUserActiveFailing(userId, isActive, failing)
        IN  /\ users' = r.users
            /\ last' = [op |-> "SetUserActive", err |-> r.err,
                        saved |-> r.err = Nil]
            /\ UNCHANGED <<teams, pull_requests, clock, calls>>

\* Server.PostPullRequestCreate, with a failing store
CreatePullRequestFault ==
    \E prId \in PrIds, authorId \in MoveUserIds,
       failing \in {"PullRequestExists", "GetUser", "GetTeam",
                    "SavePullRequest"} :
        LET r == CreatePullRequestFailing(prId, "x", authorId, failing)
        IN  /\ clock + r.ticks <= MaxClock
            /\ pull_requests' = r.pull_requests
            /\ clock' = clock + r.ticks
            /\ last' = [op |-> "CreatePullRequest", err |-> r.err,
                        saved |-> r.saved]
            /\ UNCHANGED <<teams, users, calls>>

\* Server.PostPullRequestMerge, with a failing store
MergePullRequestFault ==
    \E prId \in PrIds, failing \in {"GetPullRequest", "SavePullRequest"} :
        LET r == MergePullRequestFailing(prId, failing)
        IN  /\ clock + r.ticks <= MaxClock
            /\ pull_requests' = r.pull_requests
            /\ clock' = clock + r.ticks
            /\ last' = [op |-> "MergePullRequest", err |-> r.err,
                        saved |-> r.saved]
            /\ UNCHANGED <<teams, users, calls>>

\* Server.PostPullRequestReassign, with a failing store
ReassignReviewerFault ==
    \E prId \in PrIds, oldReviewerId \in MoveUserIds,
       newReviewerId \in MoveUserIds,
       failing \in {"GetPullRequest", "SavePullRequest"} :
        LET r == ReassignReviewerFailing(prId, oldReviewerId, newReviewerId,
                                         failing)
        IN  /\ pull_requests' = r.pull_requests
            /\ last' = [op |-> "ReassignReviewer", err |-> r.err,
                        saved |-> r.saved]
            /\ UNCHANGED <<teams, users, clock, calls>>

NextFault ==
    \/ CreateTeamMove
    \/ SetUserActiveMove
    \/ CreatePullRequestMove
    \/ MergePullRequest
    \/ ReassignReviewerMove
    \/ CreateTeamFault
    \/ GetTeamFault
    \/ SetUserActiveFault
    \/ CreatePullRequestFault
    \/ MergePullRequestFault
    \/ ReassignReviewerFault

SpecFault == Init /\ [][NextFault]_vars

\* ----------------------------------------------------------------- claims

\* the assigned reviewers of the stored pull request id, as a reader gets them
Reviewers(id) == GetPullRequest(id).AssignedReviewers

\* C1: MERGED is terminal: a pull request whose stored status is MERGED is
\* stored with status MERGED after every further completed call, a
\* CreatePullRequest that reuses its id included.
C1_MergedIsTerminal ==
    [][\A id \in DOMAIN pull_requests :
          pull_requests[id].status = MERGED
          => /\ id \in DOMAIN pull_requests'
             /\ pull_requests'[id].status = MERGED]_vars

\* C2: once a pull request is MERGED, its assigned-reviewers list is the same
\* after every further completed call.
C2_MergedReviewersImmutable ==
    [][\A id \in DOMAIN pull_requests :
          pull_requests[id].status = MERGED
          => /\ id \in DOMAIN pull_requests'
             /\ jsonUnmarshal(pull_requests'[id].assigned_reviewers)
                = jsonUnmarshal(pull_requests[id].assigned_reviewers)]_vars

\* C3: no stored pull request has its author id among its assigned reviewers.
C3_AuthorNeverReviewer ==
    \A id \in DOMAIN pull_requests :
        \A i \in 1..Len(Reviewers(id)) :
            Reviewers(id)[i] # pull_requests[id].author_id

\* C4: for every stored pull request, merged_at is set if and only if the
\* status is MERGED.
C4_MergedAtIffMerged ==
    \A id \in DOMAIN pull_requests :
        (pull_requests[id].merged_at # NoTime)
        <=> (pull_requests[id].status = MERGED)

\* C4 witness: a merge has just stored a MERGED pull request with its merged_at.
C4_Witness ==
    /\ last.op = "MergePullRequest" /\ last.saved
    /\ \E id \in DOMAIN pull_requests :
          pull_requests[id].status = MERGED /\ pull_requests[id].merged_at # NoTime

\* the smaller of two numbers
Min(a, b) == IF a <= b THEN a ELSE b

\* the members of team t1 that CreatePullRequest by authorId should pick from:
\* GivenOrder without the author and without the users that are not active now
Eligible(authorId) ==
    SelectSeq(GivenOrder,
              LAMBDA u : /\ u # authorId
                         /\ UserExists(u)
                         /\ GetUser(u).TeamName = "t1"
                         /\ GetUser(u).IsActive)

\* C5 (under SpecTeam): a successful CreatePullRequest assigns exactly the
\* first min(2, k) of the k members of the author's team that are not the
\* author and are active now, in the order the members were given when the
\* team was created; the list is returned and stored.
C5_FirstTwoInGivenOrder ==
    \A prId \in PrIds, prName \in PrNames, authorId \in UserIds :
        LET r == CreatePullRequestCall(prId, prName, authorId)
            expected == SubSeq(Eligible(authorId), 1,
                               Min(maxReviewers, Len(Eligible(authorId))))
        IN  r.err = Nil
            => /\ r.pr[1].AssignedReviewers = expected
               /\ jsonUnmarshal(r.pull_requests[prId].assigned_reviewers) = expected

\* C6: CreatePullRequest with an id that is already stored fails with
\* ErrPRExists (PR_EXISTS) and leaves the stored pull request as it was.
C6_ExistingIdRejected ==
    \A prId \in DOMAIN pull_requests, prName \in PrNames, authorId \in UserIds :
        LET r == CreatePullRequestCall(prId, prName, authorId)
        IN  /\ r.err = ErrPRExists
            /\ r.pull_requests = pull_requests

\* C7: MergePullRequest on a pull request that is already MERGED returns the
\* stored record with a nil error, does not call SavePullRequest, and leaves
\* the stored status and merged_at (the whole table) as the first merge wrote
\* them.
C7_MergeIdempotent ==
    \A prId \in DOMAIN pull_requests :
        pull_requests[prId].status = MERGED
        => LET r == MergePullRequestCall(prId)
           IN  /\ r.err = Nil
               /\ ~r.saved
               /\ r.ticks = 0
               /\ r.pr = <<GetPullRequest(prId)>>
               /\ r.pull_requests = pull_requests

\* C7 witness: a merge of an already MERGED pull request has returned nil
\* without a write.
C7_Witness ==
    /\ last.op = "MergePullRequest" /\ last.err = Nil /\ ~last.saved
    /\ \E prId \in DOMAIN pull_requests : pull_requests[prId].status = MERGED

\* userId is among the assigned reviewers of the stored pull request prId
Assigned(prId, userId) ==
    \E i \in 1..Len(Reviewers(prId)) : Reviewers(prId)[i] = userId

\* C8: ReassignReviewer on a MERGED pull request fails with ErrPRMerged
\* (PR_MERGED) and writes nothing, whether the old reviewer id is in the list
\* or not.
C8_ReassignAfterMergeConflict ==
    \A prId \in DOMAIN pull_requests :
    \A oldReviewerId \in UserIds, newReviewerId \in UserIds :
        pull_requests[prId].status = MERGED
        => LET r == ReassignReviewerCall(prId, oldReviewerId, newReviewerId)
           IN  /\ r.err = ErrPRMerged
               /\ ~r.saved
               /\ r.pull_requests = pull_requests

\* C8 witness: a reassignment has just been refused with ErrPRMerged on a
\* merged pull request that has an assigned reviewer and a user id that is
\* not assigned.
C8_Witness ==
    /\ last.op = "ReassignReviewer" /\ last.err = ErrPRMerged
    /\ \E prId \in DOMAIN pull_requests :
          /\ pull_requests[prId].status = MERGED
          /\ \E u \in UserIds : Assigned(prId, u)
          /\ \E u \in UserIds : ~Assigned(prId, u)

\* C9: ReassignReviewer on an OPEN pull request with an old reviewer id that is
\* not in the assigned-reviewers list fails with ErrReviewerNotAssigned and
\* leaves the stored list (the whole table) unchanged.
C9_NotAssignedRejected ==
    \A prId \in DOMAIN pull_requests :
    \A oldReviewerId \in UserIds, newReviewerId \in UserIds :
        (pull_requests[prId].status = OPEN /\ ~Assigned(prId, oldReviewerId))
        => LET r == ReassignReviewerCall(prId, oldReviewerId, newReviewerId)
           IN  /\ r.err = ErrReviewerNotAssigned
               /\ ~r.saved
               /\ r.pull_requests = pull_requests

\* C9 witness: a reassignment has just been refused with
\* ErrReviewerNotAssigned on an OPEN pull request that has reviewers.
C9_Witness ==
    /\ last.op = "ReassignReviewer" /\ last.err = ErrReviewerNotAssigned
    /\ \E prId \in DOMAIN pull_requests :
          pull_requests[prId].status = OPEN /\ Len(Reviewers(prId)) > 0

\* C10: a successful ReassignReviewer(prId, old, new) stores a list of the
\* same length in which the first position that held old holds new and every
\* other position is as before, and returns that list.
C10_ReassignReplacesFirst ==
    \A prId \in DOMAIN pull_requests :
    \A oldReviewerId \in UserIds, newReviewerId \in UserIds :
        LET r == ReassignReviewerCall(prId, oldReviewerId, newReviewerId)
            before == Reviewers(prId)
            after  == jsonUnmarshal(r.pull_requests[prId].assigned_reviewers)
        IN  r.err = Nil
            => /\ Len(after) = Len(before)
               /\ \E k \in 1..Len(before) :
                     /\ before[k] = oldReviewerId
                     /\ \A j \in 1..(k - 1) : before[j] # oldReviewerId
                     /\ after[k] = newReviewerId
                     /\ \A j \in 1..Len(before) : j # k => after[j] = before[j]
               /\ r.pr[1].AssignedReviewers = after

\* C10 witness: a reassignment has just succeeded on a list that now names
\* the same user twice.
C10_Witness ==
    /\ last.op = "ReassignReviewer" /\ last.err = Nil /\ last.saved
    /\ \E prId \in DOMAIN pull_requests :
          /\ Len(Reviewers(prId)) = 2
          /\ Reviewers(prId)[1] = Reviewers(prId)[2]

\* C11: GetUserPullRequests(u) has exactly one entry for each stored pull
\* request whose assigned reviewers contain u and no other entry, and each
\* entry carries the stored id, name, author id and status of its pull
\* request, merged ones included.
C11_ReviewListMatchesStore ==
    \A u \in UserIds :
        LET res == GetUserPullRequests(u)
        IN  /\ \A id \in DOMAIN pull_requests :
                  Assigned(id, u) =>
                      Cardinality({k \in 1..Len(res) :
                                      res[k].PullRequestId = id}) = 1
            /\ \A k \in 1..Len(res) :
                  /\ res[k].PullRequestId \in DOMAIN pull_requests
                  /\ Assigned(res[k].PullRequestId, u)
                  /\ LET pr == GetPullRequest(res[k].PullRequestId)
                     IN  res[k] = [PullRequestId   |-> pr.PullRequestId,
                                   PullRequestName |-> pr.PullRequestName,
                                   AuthorId        |-> pr.AuthorId,
                                   Status          |-> pr.Status]

\* a user listed the reviews: one has two entries, a merged one among them,
\* another user has none
C11_Witness ==
    /\ last.op = "GetUserPullRequests"
    /\ \E u \in UserIds :
          LET res == GetUserPullRequests(u)
          IN  /\ Len(res) = 2
              /\ \E k \in 1..2 : res[k].Status = MERGED
              /\ \E k \in 1..2 : res[k].Status = OPEN
    /\ \E u \in UserIds : GetUserPullRequests(u) = <<>>

\* C12: CreateTeam with a registered name fails with ErrTeamExists
\* (TEAM_EXISTS) and leaves the teams and every user record as they are,
\* whatever member list the request carries.
C12_ExistingTeamRejected ==
    \A name \in MoveTeamNames, members \in MoveMemberLists :
        TeamExists(name) =>
            LET r == CreateTeamCall([TeamName |-> name, Members |-> members])
            IN  /\ r.err = ErrTeamExists
                /\ r.teams = teams
                /\ r.users = users

\* CreateTeam was refused for the name of a team that has members
C12_Witness ==
    /\ last.op = "CreateTeam"
    /\ last.err = ErrTeamExists
    /\ \E name \in teams : Len(GetTeam(name).Members) > 0

\* the user ids GetTeam(name) returns
MemberIds(name) ==
    {GetTeam(name).Members[i].UserId : i \in 1..Len(GetTeam(name).Members)}

\* C13: the set of member ids GetTeam returns for a registered team is the
\* same after every step, CreateTeam of another team that lists one of its
\* members included.
C13_MemberSetFixed ==
    [][\A name \in MoveTeamNames :
          TeamExists(name) => MemberIds(name)' = MemberIds(name)]_vars

\* C14: right after a successful CreateTeam(name, members), GetTeam(name)
\* returns the members of the request, id, display name and active flag, in
\* the order of the request, for every member list, the empty one included.
C14_RoundTrip ==
    \A name \in MoveTeamNames, members \in MoveMemberLists :
        LET r == CreateTeamCall([TeamName |-> name, Members |-> members])
        IN  r.err = Nil => GetTeamIn(r.users, name).Members = members

\* a reader sees no team of this name and no user bound to it
NoTeam(name) ==
    /\ ~TeamExists(name)
    /\ GetTeam(name).Members = <<>>

\* a reader sees the team and every user id of the request bound to it
WholeTeam(team) ==
    /\ TeamExists(team.TeamName)
    /\ \A i \in 1..Len(team.Members) :
          team.Members[i].UserId \in MemberIds(team.TeamName)

\* C15: what TeamExists and GetTeam read after any step of a CreateTeam call
\* is no team and no member bound to its name while the call runs, and the
\* team with every member of the request, or still nothing, when it returns.
C15_TeamVisibleAtOnce ==
    [][\A c \in DOMAIN calls : \A team \in {calls[c].team} :
          IF c \in DOMAIN calls'
          THEN NoTeam(team.TeamName)'
          ELSE NoTeam(team.TeamName)' \/ WholeTeam(team)']_vars

\* a CreateTeam of two different users has executed its INSERT of the team
\* and the upsert of the first, a user no committed row has, and has not
\* committed: the readers see neither
C15_Witness ==
    \E c \in DOMAIN calls :
        /\ calls[c].done = 3
        /\ Len(calls[c].team.Members) >= 2
        /\ calls[c].team.Members[1].UserId # calls[c].team.Members[2].UserId
        /\ ~UserExists(calls[c].team.Members[1].UserId)
        /\ NoTeam(calls[c].team.TeamName)

\* the users CreatePullRequest by authorId can pick now: the users of the
\* author's team, the author left out, whose stored is_active is true
ActiveTeammates(authorId) ==
    {u \in UserIds : /\ u # authorId
                     /\ UserExists(u)
                     /\ GetUser(u).TeamName = GetUser(authorId).TeamName
                     /\ GetUser(u).IsActive}

\* C16 as stated (under SpecOff): after SetUserActive(OffUser, false)
\* returned nil and as long as no SetUserActive(OffUser, true) follows, no
\* successful CreatePullRequest assigns OffUser.
C16_OffUntilSwitchedOn ==
    \A prId \in PrIds, prName \in PrNames, authorId \in UserIds :
        LET r == CreatePullRequestCall(prId, prName, authorId)
        IN  r.err = Nil
            => \A i \in 1..Len(r.pr[1].AssignedReviewers) :
                  r.pr[1].AssignedReviewers[i] # OffUser

\* What does hold under SpecOff: a successful CreatePullRequest assigns
\* users whose stored is_active is true at the call and no other, min(2, k)
\* of the k such users of the author's team.
ReviewersActiveAtCall ==
    \A prId \in PrIds, prName \in PrNames, authorId \in UserIds :
        LET r == CreatePullRequestCall(prId, prName, authorId)
        IN  r.err = Nil
            => /\ \A i \in 1..Len(r.pr[1].AssignedReviewers) :
                     r.pr[1].AssignedReviewers[i] \in ActiveTeammates(authorId)
               /\ Len(r.pr[1].AssignedReviewers) =
                     Min(maxReviewers, Cardinality(ActiveTeammates(authorId)))

\* C17: a step of SetUserActive leaves every stored pull request as it is:
\* the user stays in every list of assigned reviewers, and GetUserPullRequests
\* returns for every user what it returned before.
C17_SetUserActiveKeepsPullRequests ==
    [][last'.op = "SetUserActive"
          => /\ pull_requests' = pull_requests
             /\ \A u \in MoveUserIds :
                   GetUserPullRequests(u)' = GetUserPullRequests(u)]_vars

\* SetUserActive has just switched off a user who reviews a pull request
C17_Witness ==
    /\ last.op = "SetUserActive"
    /\ last.err = Nil
    /\ \E u \in MoveUserIds :
          /\ UserExists(u)
          /\ ~GetUser(u).IsActive
          /\ Len(GetUserPullRequests(u)) > 0
          /\ \E id \in DOMAIN pull_requests :
                pull_requests[id].status = OPEN /\ Assigned(id, u)

\* the member lists of a request that may carry another display name
RenamingMemberLists ==
    SeqsUpTo([UserId : MoveUserIds, Username : Usernames \cup {"Bob"},
              IsActive : BOOLEAN],
             MaxMembers)

\* C18: a successful CreateTeam that lists the id of a stored user leaves
\* that user's display name as it is stored; team binding and active flag
\* alone are superseded.
C18_DisplayNameKept ==
    \A name \in MoveTeamNames, members \in RenamingMemberLists :
        LET r == CreateTeamCall([TeamName |-> name, Members |-> members])
        IN  r.err = Nil
            => \A i \in 1..Len(members) :
                  UserExists(members[i].UserId)
                  => /\ RowOf(r.users, members[i].UserId) # 0
                     /\ r.users[RowOf(r.users, members[i].UserId)].username
                           = GetUser(members[i].UserId).Username

\* C19: CreatePullRequest with an author id that no stored user has fails
\* with ErrUserNotFound (NOT_FOUND), returns no pull request and writes
\* nothing: no pull request is stored under the id of the request.
C19_UnknownAuthorRejected ==
    \A prId \in PrIds, prName \in PrNames, authorId \in MoveUserIds :
        ~UserExists(authorId)
        => LET r == CreatePullRequestCall(prId, prName, authorId)
           IN  /\ r.err = ErrUserNotFound
               /\ r.pr = <<>>
               /\ ~r.saved
               /\ r.pull_requests = pull_requests

\* CreatePullRequest was refused for an unknown author while a team with
\* members is registered
C19_Witness ==
    /\ last.op = "CreatePullRequest"
    /\ last.err = ErrUserNotFound
    /\ ~last.saved
    /\ users # <<>>
    /\ \E authorId \in MoveUserIds : ~UserExists(authorId)

\* C20: GetTeam(name) fails with ErrTeamNotFound (NOT_FOUND) exactly when no
\* team of that name is registered; for a name that was never registered it
\* returns no team, not even one without members.
C20_NotFoundIffUnregistered ==
    \A name \in MoveTeamNames :
        LET r == GetTeamCall(name)
        IN  /\ (r.err = ErrTeamNotFound) <=> ~TeamExists(name)
            /\ ~TeamExists(name) => r.team = <<>>

\* C21: SetUserActive with an id no stored user has fails with
\* ErrUserNotFound (NOT_FOUND) and leaves table users as it is; with a stored
\* id it returns nil and the user with the given flag, stores that flag and
\* leaves the name and the team of the user, and every other user, as stored.
C21_SetUserActiveContract ==
    \A userId \in MoveUserIds, isActive \in BOOLEAN :
        LET r == SetUserActiveCall(userId, isActive)
        IN  IF ~UserExists(userId)
            THEN /\ r.err = ErrUserNotFound
                 /\ r.user = <<>>
                 /\ r.users = users
            ELSE /\ r.err = Nil
                 /\ r.user = <<[GetUser(userId) EXCEPT !.IsActive = isActive]>>
                 /\ RowOf(r.users, userId) # 0
                 /\ r.users[RowOf(r.users, userId)] =
                       [users[RowOf(users, userId)] EXCEPT !.is_active = isActive]
                 /\ \A other \in MoveUserIds \ {userId} :
                       IF UserExists(other)
                       THEN /\ RowOf(r.users, other) # 0
                            /\ r.users[RowOf(r.users, other)] =
                                  users[RowOf(users, other)]
                       ELSE RowOf(r.users, other) = 0

\* SetUserActive was refused for an unknown id while another user is stored
C21_Witness ==
    /\ last.op = "SetUserActive"
    /\ last.err = ErrUserNotFound
    /\ ~last.saved
    /\ users # <<>>
    /\ \E userId \in MoveUserIds : ~UserExists(userId)

\* C22: MergePullRequest with an id that is not stored fails with
\* ErrPRNotFound (NOT_FOUND), returns no pull request and writes nothing: no
\* record is stored under that id.
C22_MergeUnknownRejected ==
    \A prId \in PrIds :
        ~PullRequestExists(prId)
        => LET r == MergePullRequestCall(prId)
           IN  /\ r.err = ErrPRNotFound
               /\ r.pr = <<>>
               /\ ~r.saved
               /\ r.ticks = 0
               /\ r.pull_requests = pull_requests

\* MergePullRequest was refused for an id that is not stored, with users
\* registered
C22_Witness ==
    /\ last.op = "MergePullRequest"
    /\ last.err = ErrPRNotFound
    /\ ~last.saved
    /\ pull_requests = <<>>
    /\ users # <<>>

\* C23 (under SpecRace): in every interleaving of the reads and the writes of
\* MergePullRequest and ReassignReviewer, a pull request that is stored
\* MERGED is stored MERGED with merged_at set after every further step: the
\* write of a reassignment does not open it again.
C23_MergeSurvivesReassign ==
    [][\A id \in DOMAIN pull_requests :
          pull_requests[id].status = MERGED
          => /\ pull_requests'[id].status = MERGED
             /\ pull_requests'[id].merged_at # NoTime]_vars

\* C26 (under SpecRace): the write of a MergePullRequest on a pull request
\* whose merged_at is set leaves that merged_at: the value of the first
\* committed merge is not replaced by the one of a second merge that read
\* the pull request while it was OPEN.
C26_MergedAtSetOnce ==
    [][\A c \in DOMAIN calls : \A call \in {calls[c]} :
          (/\ call.op = "MergePullRequest"
           /\ c \notin DOMAIN calls'
           /\ pull_requests[call.pr.PullRequestId].merged_at # NoTime)
          => pull_requests'[call.pr.PullRequestId].merged_at
                = pull_requests[call.pr.PullRequestId].merged_at]_vars

\* C27 (under SpecRace): the write of a ReassignReviewer stores exactly the
\* reviewers of that call, whatever another call wrote since it read, so
\* after two interleaved calls the list is the one of the call that
\* committed last; the list is as long as it was.
C27_LastWriterWins ==
    [][\A c \in DOMAIN calls : \A call \in {calls[c]} :
          (call.op = "ReassignReviewer" /\ c \notin DOMAIN calls')
          => /\ jsonUnmarshal(pull_requests'[call.pr.PullRequestId]
                                  .assigned_reviewers)
                   = call.pr.AssignedReviewers
             /\ Len(jsonUnmarshal(pull_requests'[call.pr.PullRequestId]
                                      .assigned_reviewers))
                   = Len(Reviewers(call.pr.PullRequestId))]_vars

\* a ReassignReviewer has committed after another ReassignReviewer read the
\* pull request: the reviewers the open call is going to save differ from
\* the stored ones at both positions, and the pull request is OPEN
C27_Witness ==
    /\ last.op = "ReassignReviewer"
    /\ last.saved
    /\ \E c \in DOMAIN calls :
          /\ calls[c].op = "ReassignReviewer"
          /\ pull_requests[calls[c].pr.PullRequestId].status = OPEN
          /\ Len(Reviewers(calls[c].pr.PullRequestId)) = 2
          /\ \A i \in 1..2 :
                calls[c].pr.AssignedReviewers[i]
                   # Reviewers(calls[c].pr.PullRequestId)[i]

\* C24 (under SpecCreateRace): of the CreatePullRequest calls of one id, in
\* any interleaving of their reads and writes, one at most returns nil: no
\* call returns nil for an id that an earlier call has stored, and the
\* stored record stays the one of the call that returned nil first.
C24_OneCreateSucceeds ==
    [][\A c \in DOMAIN calls : \A call \in {calls[c]} :
          (call.op = "CreatePullRequest" /\ c \notin DOMAIN calls')
          => \/ ~PullRequestExists(call.pr.PullRequestId)
             \/ /\ last'.err = ErrPRExists
                /\ pull_requests' = pull_requests]_vars

\* C25 (under SpecTeamRace): of the CreateTeam calls of one name, in any
\* interleaving of their TeamExists tests and their transactions, one at most
\* returns nil: no call commits and returns nil for a name that is
\* registered, so the members of the call that returned nil first stay.
C25_OneCreateTeamSucceeds ==
    [][\A c \in DOMAIN calls : \A call \in {calls[c]} :
          (c \notin DOMAIN calls' /\ last'.err = Nil)
          => ~TeamExists(call.team.TeamName)]_vars

\* C28: in every reachable state no stored pull request lists a user id
\* twice among its assigned reviewers.
C28_NoDuplicateReviewers ==
    \A id \in DOMAIN pull_requests :
        \A i, j \in 1..Len(Reviewers(id)) :
            Reviewers(id)[i] = Reviewers(id)[j] => i = j

C30_NoCandidateRejected ==
    /\ \A prId \in PrIds, authorId \in UserIds :
          (UserExists(authorId) /\ ActiveTeammates(authorId) = {})
              => LET r == CreatePullRequestCall(prId, "x", authorId)
                 IN  /\ r.err = ErrNoCandidate
                     /\ ~r.saved
                     /\ r.pull_requests = pull_requests
    /\ (last.op = "CreatePullRequest" /\ last.err = Nil)
          => \E id \in DOMAIN pull_requests : Len(Reviewers(id)) >= 1

\* the number of positions at which the reviewers of the row before and of
\* the row after differ
ChangedPositions(before, after) ==
    Cardinality({i \in 1..Len(jsonUnmarshal(before.assigned_reviewers)) :
                    jsonUnmarshal(before.assigned_reviewers)[i]
                        # jsonUnmarshal(after.assigned_reviewers)[i]})

\* C31 (under Spec): no step deletes a stored pull request or changes its id,
\* name, author id or createdAt; a step of MergePullRequest changes nothing
\* but status and mergedAt of one pull request, a step of ReassignReviewer
\* nothing but one element of the reviewers of one pull request, and both
\* leave every other pull request, the users and the teams as they were.
C31_PullRequestFrame ==
    [][/\ \A id \in DOMAIN pull_requests :
             /\ id \in DOMAIN pull_requests'
             /\ pull_requests'[id].pull_request_id = pull_requests[id].pull_request_id
             /\ pull_requests'[id].pull_request_name = pull_requests[id].pull_request_name
             /\ pull_requests'[id].author_id = pull_requests[id].author_id
             /\ pull_requests'[id].created_at = pull_requests[id].created_at
       /\ last'.op \in {"MergePullRequest", "ReassignReviewer"}
             => /\ users' = users
                /\ teams' = teams
                /\ DOMAIN pull_requests' = DOMAIN pull_requests
                /\ Cardinality({id \in DOMAIN pull_requests :
                                   pull_requests'[id] # pull_requests[id]}) <= 1
       /\ last'.op = "MergePullRequest"
             => \A id \in DOMAIN pull_requests :
                   pull_requests'[id].assigned_reviewers
                       = pull_requests[id].assigned_reviewers
       /\ last'.op = "ReassignReviewer"
             => \A id \in DOMAIN pull_requests :
                   /\ pull_requests'[id].status = pull_requests[id].status
                   /\ pull_requests'[id].merged_at = pull_requests[id].merged_at
                   /\ Len(Reviewers(id))' = Len(Reviewers(id))
                   /\ ChangedPositions(pull_requests[id], pull_requests'[id]) <= 1
      ]_vars

\* C32 (under SpecFault): when the store fails while it looks up a user, a
\* team or a pull request that exists, SetUserActive, GetTeam,
\* CreatePullRequest, MergePullRequest and ReassignReviewer report the store
\* failure, and neither NotFound nor AlreadyExists.
C32_LookupFailureIsNotAMiss ==
    /\ \A userId \in MoveUserIds, isActive \in BOOLEAN :
          UserExists(userId)
              => SetUserActiveFailing(userId, isActive, "GetUser").err
                    = StoreError
    /\ \A name \in MoveTeamNames :
          TeamExists(name) => GetTeamFailing(name, "GetTeam").err = StoreError
    /\ \A prId \in PrIds, authorId \in MoveUserIds,
          failing \in {"PullRequestExists", "GetUser", "GetTeam"} :
          (UserExists(authorId) /\ TeamExists(GetUser(authorId).TeamName))
              => CreatePullRequestFailing(prId, "x", authorId, failing).err
                    = StoreError
    /\ \A prId \in PrIds :
          PullRequestExists(prId)
              => /\ MergePullRequestFailing(prId, "GetPullRequest").err
                       = StoreError
                 /\ \A oldReviewerId \in MoveUserIds,
                       newReviewerId \in MoveUserIds :
                       ReassignReviewerFailing(prId, oldReviewerId,
                                               newReviewerId,
                                               "GetPullRequest").err
                           = StoreError

\* what Storage.GetPullRequest reads for id from the table store
StoredPullRequest(store, id) ==
    [PullRequestId     |-> store[id].pull_request_id,
     PullRequestName   |-> store[id].pull_request_name,
     AuthorId          |-> store[id].author_id,
     AssignedReviewers |-> jsonUnmarshal(store[id].assigned_reviewers),
     Status            |-> store[id].status,
     CreatedAt         |-> store[id].created_at,
     MergedAt          |-> store[id].merged_at]

\* C33 (under SpecFault): CreateTeam, CreatePullRequest, MergePullRequest and
\* ReassignReviewer return an error when the store fails to write the record,
\* and whenever CreatePullRequest, MergePullRequest or ReassignReviewer
\* returns nil, the pull request it returns is the one the store holds after
\* the call.
C33_WriteFailureSurfaced ==
    /\ \A name \in MoveTeamNames \ teams, members \in MoveMemberLists :
          CreateTeamFailing([TeamName |-> name, Members |-> members],
                            "SaveTeam").err # Nil
    /\ \A prId \in PrIds, authorId \in MoveUserIds :
          /\ UserExists(authorId)
                => CreatePullRequestFailing(prId, "x", authorId,
                                            "SavePullRequest").err # Nil
          /\ LET r == CreatePullRequestCall(prId, "x", authorId)
             IN  r.err = Nil
                    => r.pr[1] = StoredPullRequest(r.pull_requests, prId)
    /\ \A prId \in PrIds :
          /\ (PullRequestExists(prId) /\ pull_requests[prId].status = OPEN)
                => MergePullRequestFailing(prId, "SavePullRequest").err # Nil
          /\ LET r == MergePullRequestCall(prId)
             IN  r.err = Nil
                    => r.pr[1] = StoredPullRequest(r.pull_requests, prId)
    /\ \A prId \in PrIds, oldReviewerId \in MoveUserIds,
          newReviewerId \in MoveUserIds :
          LET r == ReassignReviewerCall(prId, oldReviewerId, newReviewerId)
          IN  /\ r.err = Nil
                    => /\ r.pr[1] = StoredPullRequest(r.pull_requests, prId)
                       /\ ReassignReviewerFailing(prId, oldReviewerId,
                                                  newReviewerId,
                                                  "SavePullRequest").err # Nil

\* C34 (under SpecIndep): the result of ReassignReviewer and the table it
\* leaves depend on the stored pull requests and the two ids only.  A step
\* that changes users or teams and leaves the pull requests changes the
\* outcome of no call, and a call with an assigned old reviewer on an OPEN
\* pull request returns nil for every new reviewer id: unknown, inactive or
\* of another team.
C34_ReassignIgnoresUsers ==
    /\ [](\A prId \in DOMAIN pull_requests, oldReviewerId \in UserIds,
             newReviewerId \in UserIds :
             (/\ pull_requests[prId].status = OPEN
              /\ Assigned(prId, oldReviewerId))
                => LET r == ReassignReviewerCall(prId, oldReviewerId,
                                                 newReviewerId)
                   IN  /\ r.err = Nil
                       /\ StoredPullRequest(r.pull_requests,
                                            prId).AssignedReviewers
                             = [Reviewers(prId) EXCEPT
                                   ![indexOf(Reviewers(prId), oldReviewerId, 1)]
                                       = newReviewerId])
    /\ [][pull_requests' = pull_requests
             => \A prId \in PrIds, oldReviewerId \in UserIds,
                   newReviewerId \in UserIds :
                   ReassignReviewerCall(prId, oldReviewerId, newReviewerId)'
                       = ReassignReviewerCall(prId, oldReviewerId,
                                              newReviewerId)]_vars

\* ReassignReviewer has just stored a reviewer who is not registered
C34_Witness ==
    /\ last.op = "ReassignReviewer"
    /\ last.err = Nil
    /\ \E id \in DOMAIN pull_requests :
          \E i \in 1..Len(Reviewers(id)) : ~UserExists(Reviewers(id)[i])

\* C35 (under SpecMove): in every reachable state no user id is in the
\* member lists GetTeam returns for two different team names, no list names
\* a user id twice, and every registered user is a member of one registered
\* team.
C35_OneTeamPerUser ==
    /\ \A a, b \in MoveTeamNames :
          a # b => MemberIds(a) \cap MemberIds(b) = {}
    /\ \A name \in MoveTeamNames :
          \A i, j \in 1..Len(GetTeam(name).Members) :
              GetTeam(name).Members[i].UserId = GetTeam(name).Members[j].UserId
                  => i = j
    /\ \A userId \in MoveUserIds :
          UserExists(userId)
              => /\ TeamExists(GetUser(userId).TeamName)
                 /\ Cardinality({name \in MoveTeamNames :
                                    userId \in MemberIds(name)}) = 1

\* CreateTeam has just registered, in a second team, a user who was a teammate
\* of the author of a pull request when it was created
C35_Witness ==
    /\ last.op = "CreateTeam"
    /\ last.err = Nil
    /\ teams = MoveTeamNames
    /\ \E id \in DOMAIN pull_requests :
          \E i \in 1..Len(Reviewers(id)) :
              /\ UserExists(Reviewers(id)[i])
              /\ GetUser(Reviewers(id)[i]).TeamName
                    # GetUser(pull_requests[id].author_id).TeamName

\* C36 (under SpecAuthor): in every reachable state the author id of every
\* stored pull request is the id of a registered user.
C36_AuthorRegistered ==
    \A id \in DOMAIN pull_requests : UserExists(pull_requests[id].author_id)

\* a CreateTeam whose DELETE met the row of an author has just been rolled
\* back
C36_Witness ==
    /\ last.op = "CreateTeam"
    /\ last.err = StoreError
    /\ pull_requests # <<>>

\* C37 (under SpecAtomic): in every reachable state TeamExists is true for a
\* name if and only if GetTeam for that name returns nil, and no name is
\* both rejected by CreateTeam with ErrTeamExists and answered by GetTeam
\* with ErrTeamNotFound.
C37_TeamExistsIffGetTeam ==
    \A name \in MoveTeamNames :
        /\ TeamExists(name) <=> GetTeamCall(name).err = Nil
        /\ ~(/\ CreateTeamCall([TeamName |-> name, Members |-> <<>>]).err
                   = ErrTeamExists
             /\ GetTeamCall(name).err = ErrTeamNotFound)

====
